---- MODULE Spec2Model ----
(***************************************************************************)
(* A model of gtn/functions.cpp: remove, findReachable, compose, the       *)
(* gradient closure of compose, forward and forwardGrad.                   *)
(*                                                                         *)
(* A graph is a record [numNodes, start, accept, arcs]: nodes are          *)
(* 0..numNodes-1, start and accept are the sets of flagged nodes and arcs  *)
(* is the arc list in insertion order (arc index a of the code is          *)
(* position a+1 of the sequence).  The start() and accept() lists of an    *)
(* input graph are in node order.                                          *)
(*                                                                         *)
(* Weights: compose only adds weights, so its weights are integers.        *)
(* forward and forwardGrad work in the log semiring; there every float x   *)
(* (a weight, a score, the output) is represented by exp(x) as an exact    *)
(* fraction, so -infinity is 0, x + y is a product, logadd is a sum and    *)
(* exp(x - y) is a quotient.  Rounding of floats is not modelled.          *)
(***************************************************************************)
EXTENDS Integers, Sequences, FiniteSets, TLC

VARIABLES
  pc,          \* position of the running operation
  first,       \* compose: first input; remove: other; forward: graph
  second,      \* compose: second input
  rmLabels,    \* remove: <<ilabel, olabel>>
  toExplore,   \* std::queue toExplore (remove, findReachable, compose)
  reachable,   \* findReachable: vector<bool>; remove: std::set<int>
  newNodes,    \* compose: newNodes; remove: nodes
  ngraph,      \* compose: ngraph; remove: graph (the graph being built)
  gradInfo,    \* compose: provenance list
  n,           \* remove: outer loop index
  computed,    \* forward, forwardGrad: std::queue computed
  scores,      \* forward: scores
  degrees,     \* forward, forwardGrad: degrees
  output,      \* forward: score accumulated over accept nodes
  deltas,      \* backward: the incoming deltas (forward: the seed)
  calcGrad,    \* backward: calcGrad bit of each input
  nodeGrads,   \* forwardGrad: nodeGrads
  arcGrads,    \* forwardGrad: arcGrads
  addGradLog   \* backward: the addGrad calls made, in order

vars == <<pc, first, second, rmLabels, toExplore, reachable, newNodes, ngraph,
          gradInfo, n, computed, scores, degrees, output, deltas, calcGrad,
          nodeGrads, arcGrads, addGradLog>>

\* ------------------------------------------------------------------ bounds

\* compose inputs
MaxNodes == 2
MaxArcs == 2
\* forward inputs
MaxNodesF == 2
MaxArcsF == 2
\* remove inputs
MaxNodesR == 2
MaxArcsR == 2
\* inputs of the runs checked for termination
MaxNodesT == 2
MaxArcsT == 2
\* longest path of an input graph looked at by the path properties of compose
MaxPath == 2

\* Graph::epsilon
epsilon == 0

\* line 415, as the exponential of -infinity
neginf == 0

\* ------------------------------------------------------- sequences and sets

Range(s) == {s[i] : i \in 1..Len(s)}

Min(S) == CHOOSE x \in S : \A y \in S : x <= y

\* F(v) and F(v, w), with v and w evaluated once before F is applied to them
Strict1(F(_), v) == CHOOSE r \in {F(x) : x \in {v}} : TRUE

Strict(F(_, _), v, w) == CHOOSE r \in {F(x, y) : x \in {v}, y \in {w}} : TRUE

RECURSIVE SortedSeq(_)
SortedSeq(S) ==
  IF S = {} THEN <<>>
  ELSE Strict(LAMBDA m, T : <<m>> \o SortedSeq(T), Min(S), S \ {Min(S)})

RECURSIVE SumSeq(_)
SumSeq(s) == IF s = <<>> THEN 0 ELSE Head(s) + SumSeq(Tail(s))

SeqsUpTo(S, k) == UNION {[1..m -> S] : m \in 0..k}

\* -------------------------------------------------------------- Graph class

EmptyGraph == [numNodes |-> 0, start |-> {}, accept |-> {}, arcs |-> <<>>]

addNode(g, isStart, isAccept) ==
  [g EXCEPT !.numNodes = @ + 1,
            !.start = IF isStart THEN @ \cup {g.numNodes} ELSE @,
            !.accept = IF isAccept THEN @ \cup {g.numNodes} ELSE @]

makeAccept(g, node) == [g EXCEPT !.accept = @ \cup {node}]

addArc(g, upNode, downNode, ilabel, olabel, weight) ==
  [g EXCEPT !.arcs = Append(@, [up |-> upNode, down |-> downNode,
                                ilabel |-> ilabel, olabel |-> olabel,
                                weight |-> weight])]

numArcs(g) == Len(g.arcs)

NodesOf(g) == 0..(g.numNodes - 1)

\* arc indices are those of the code: 0..numArcs-1
ArcsOf(g) == 0..(numArcs(g) - 1)

Arc(g, a) == g.arcs[a + 1]

In(g, node) == SortedSeq({a \in ArcsOf(g) : Arc(g, a).down = node})

Out(g, node) == SortedSeq({a \in ArcsOf(g) : Arc(g, a).up = node})

numIn(g, node) == Len(In(g, node))

numOut(g, node) == Len(Out(g, node))

startList(g) == SortedSeq(g.start)

acceptList(g) == SortedSeq(g.accept)

\* Graph::addGrad(vector): the size must equal numArcs
addGrad(log, input, grad, g) ==
  Append(log, [input |-> input, grad |-> grad,
               error |-> IF Len(grad) = numArcs(g) THEN "none" ELSE "ShapeMismatch"])

\* ------------------------------------------------------------ input graphs

ArcRecs(k, ilabels, olabels, weights) ==
  [up : 0..(k - 1), down : 0..(k - 1), ilabel : ilabels, olabel : olabels,
   weight : weights]

GraphsOf(k, m, ilabels, olabels, weights) ==
  [numNodes : {k}, start : SUBSET (0..(k - 1)), accept : SUBSET (0..(k - 1)),
   arcs : SeqsUpTo(ArcRecs(k, ilabels, olabels, weights), m)]

\* the transitive closure of the arc relation, as the set of <<u, v>> with a
\* path of at least one arc from u to v
RECURSIVE Closure(_, _)
Closure(g, R) ==
  LET step == R \cup {<<q[1][1], Arc(g, q[2]).down>> :
                        q \in {p \in R \X ArcsOf(g) : Arc(g, p[2]).up = p[1][2]}}
  IN IF step = R THEN R ELSE Closure(g, step)

Reach(g) == Closure(g, {<<Arc(g, a).up, Arc(g, a).down>> : a \in ArcsOf(g)})

HasCycle(g) == \E v \in NodesOf(g) : <<v, v>> \in Reach(g)

\* the variables an operation has not touched yet
Idle ==
  /\ toExplore = <<>> /\ reachable = {} /\ newNodes = <<>>
  /\ ngraph = EmptyGraph /\ gradInfo = <<>> /\ n = 0 /\ computed = <<>>
  /\ scores = <<>> /\ degrees = <<>> /\ output = neginf /\ deltas = 0
  /\ calcGrad = <<>> /\ nodeGrads = <<>> /\ arcGrads = <<>> /\ addGradLog = <<>>

\* ----------------------------------------------------------------- remove

\* line 168
labelMatch(g, labels, a) ==
  Arc(g, a).ilabel = labels[1] /\ Arc(g, a).olabel = labels[2]

\* line 175: a start node, or a node with an incoming arc that does not match
kept(g, labels, v) ==
  v \in g.start \/ \E a \in Range(In(g, v)) : ~labelMatch(g, labels, a)

\* lines 172-180: nodes[] and the nodes of the new graph, in node order
keepNode(g, labels, v, st) ==
  IF kept(g, labels, v)
    THEN [nodes |-> [st.nodes EXCEPT ![v] = st.graph.numNodes],
          graph |-> addNode(st.graph, v \in g.start, FALSE)]
    ELSE st

RECURSIVE keepNodes(_, _, _, _)
keepNodes(g, labels, v, st) ==
  IF v >= g.numNodes THEN st
  ELSE Strict(LAMBDA w, x : keepNodes(g, labels, w, x), v + 1, keepNode(g, labels, v, st))

countNever(reach, dn) == FALSE

\* line 199: reachable.count(dn)
count(reach, dn) == dn \in reach

\* line 205: the up node handed to addArc is the loop index n
upNode(outer, nodes) == outer

\* lines 197-206: one out-arc of the popped node
removeArc(g, labels, outer, nodes, a, st) ==
  LET dn == Arc(g, a).down
  IN IF labelMatch(g, labels, a)
       THEN [st EXCEPT !.toExplore = IF count(st.reachable, dn) THEN @
                                    ELSE Append(@, dn),
                       !.reachable = @ \cup {dn}]
       ELSE [st EXCEPT !.graph = addArc(@, upNode(outer, nodes), nodes[dn],
                                        Arc(g, a).ilabel, Arc(g, a).olabel, 0)]

\* lines 196-207: the out-arcs of the popped node, in order
RECURSIVE removeArcs(_, _, _, _, _, _)
removeArcs(g, labels, outer, nodes, as, st) ==
  IF as = <<>> THEN st
  ELSE Strict(LAMBDA t, x : removeArcs(g, labels, outer, nodes, t, x),
              Tail(as), removeArc(g, labels, outer, nodes, Head(as), st))

RemoveInit ==
  /\ pc = "remove"
  /\ pc' = "remove_outer"
  /\ LET st == keepNodes(first, rmLabels, 0,
                         [nodes |-> [v \in NodesOf(first) |-> -1],
                          graph |-> EmptyGraph])
     IN newNodes' = st.nodes /\ ngraph' = st.graph
  /\ n' = 0
  /\ toExplore' = <<>>
  /\ reachable' = {}
  /\ UNCHANGED <<first, second, rmLabels, gradInfo, computed, scores, degrees,
                 output, deltas, calcGrad, nodeGrads, arcGrads, addGradLog>>

\* lines 184-189: the head of the for loop over the nodes of other
RemoveSeed ==
  /\ pc = "remove_outer"
  /\ n < first.numNodes
  /\ pc' = "remove_walk"
  /\ IF newNodes[n] >= 0
       THEN toExplore' = Append(toExplore, n) /\ reachable' = reachable \cup {n}
       ELSE UNCHANGED <<toExplore, reachable>>
  /\ UNCHANGED <<first, second, rmLabels, newNodes, ngraph, gradInfo, n, computed,
                 scores, degrees, output, deltas, calcGrad, nodeGrads, arcGrads,
                 addGradLog>>

\* one iteration of the while loop, lines 190-208
RemoveStep ==
  /\ pc = "remove_walk"
  /\ toExplore # <<>>
  /\ LET next == Head(toExplore)
         g0 == IF next \in first.accept THEN makeAccept(ngraph, newNodes[n])
               ELSE ngraph
         st == removeArcs(first, rmLabels, n, newNodes, Out(first, next),
                          [toExplore |-> Tail(toExplore), reachable |-> reachable,
                           graph |-> g0])
     IN /\ toExplore' = st.toExplore
        /\ reachable' = st.reachable
        /\ ngraph' = st.graph
  /\ UNCHANGED <<pc, first, second, rmLabels, newNodes, gradInfo, n, computed,
                 scores, degrees, output, deltas, calcGrad, nodeGrads, arcGrads,
                 addGradLog>>

\* lines 209-210: the walk from node n is over
RemoveNext ==
  /\ pc = "remove_walk"
  /\ toExplore = <<>>
  /\ pc' = "remove_outer"
  /\ reachable' = {}
  /\ n' = n + 1
  /\ UNCHANGED <<first, second, rmLabels, toExplore, newNodes, ngraph, gradInfo,
                 computed, scores, degrees, output, deltas, calcGrad, nodeGrads,
                 arcGrads, addGradLog>>

\* line 211
RemoveReturn ==
  /\ pc = "remove_outer"
  /\ n = first.numNodes
  /\ pc' = "removed"
  /\ UNCHANGED <<first, second, rmLabels, toExplore, reachable, newNodes, ngraph,
                 gradInfo, n, computed, scores, degrees, output, deltas,
                 calcGrad, nodeGrads, arcGrads, addGradLog>>

\* ---------------------------------------------------------- findReachable

\* line 214
toIndex(n1, n2, g) == n1 + g.numNodes * n2

\* <<s1[1], s2[1]>>, <<s1[1], s2[2]>>, ...: the order of two nested for loops
PairSeq(s1, s2) ==
  Strict(LAMBDA a, b : [k \in 1..(Len(a) * Len(b)) |->
                          <<a[((k - 1) \div Len(b)) + 1], b[((k - 1) % Len(b)) + 1]>>],
         s1, s2)

\* lines 243-248 (257-262, 271-276): one up-state is marked
mark(g, up, st) ==
  LET idx == toIndex(up[1], up[2], g)
  IN [toExplore |-> IF st.reachable[idx] THEN st.toExplore
                    ELSE Append(st.toExplore, up),
      reachable |-> [st.reachable EXCEPT ![idx] = TRUE]]

\* the up-states of the three for loops, marked in order
RECURSIVE markAll(_, _, _)
markAll(g, ups, st) ==
  IF ups = <<>> THEN st
  ELSE Strict(LAMBDA t, x : markAll(g, t, x), Tail(ups), mark(g, Head(ups), st))

\* the pairs (i, j) of incoming arcs that pass the test of line 237
matchedIn(f, s, curr) ==
  SelectSeq(PairSeq(In(f, curr[1]), In(s, curr[2])),
            LAMBDA p : Arc(f, p[1]).olabel = Arc(s, p[2]).ilabel)

\* line 240, accumulated over the first loop
epsilonMatched(f, s, curr) ==
  Strict1(LAMBDA m : \E k \in 1..Len(m) : Arc(f, m[k][1]).olabel = epsilon,
          matchedIn(f, s, curr))

\* lines 235-250
pairedUps(f, s, curr) ==
  Strict1(LAMBDA m : [k \in 1..Len(m) |-> <<Arc(f, m[k][1]).up, Arc(s, m[k][2]).up>>],
          matchedIn(f, s, curr))

\* lines 251-264
firstEpsilonUps(f, s, curr) ==
  IF epsilonMatched(f, s, curr) THEN <<>>
  ELSE Strict1(LAMBDA is : [k \in 1..Len(is) |-> <<Arc(f, is[k]).up, curr[2]>>],
               SelectSeq(In(f, curr[1]), LAMBDA i : Arc(f, i).olabel = epsilon))

\* lines 265-278
secondEpsilonUps(f, s, curr) ==
  IF epsilonMatched(f, s, curr) THEN <<>>
  ELSE Strict1(LAMBDA js : [k \in 1..Len(js) |-> <<curr[1], Arc(s, js[k]).up>>],
               SelectSeq(In(s, curr[2]), LAMBDA j : Arc(s, j).ilabel = epsilon))

\* lines 221-228
FindReachableInit ==
  /\ pc = "compose"
  /\ pc' = "reach_loop"
  /\ LET seeds == PairSeq(acceptList(first), acceptList(second))
     IN /\ toExplore' = seeds
        /\ reachable' = [idx \in 0..(first.numNodes * second.numNodes - 1) |->
                           \E k \in 1..Len(seeds) :
                              toIndex(seeds[k][1], seeds[k][2], first) = idx]
  /\ UNCHANGED <<first, second, rmLabels, newNodes, ngraph, gradInfo, n, computed,
                 scores, degrees, output, deltas, calcGrad, nodeGrads, arcGrads,
                 addGradLog>>

\* one iteration of the while loop, lines 230-279
FindReachableStep ==
  /\ pc = "reach_loop"
  /\ toExplore # <<>>
  /\ \E curr \in {Head(toExplore)} :
       \E st \in {Strict(LAMBDA ups, st0 : markAll(first, ups, st0),
                          pairedUps(first, second, curr)
                            \o firstEpsilonUps(first, second, curr)
                            \o secondEpsilonUps(first, second, curr),
                          [toExplore |-> Tail(toExplore), reachable |-> reachable])} :
          /\ toExplore' = st.toExplore
          /\ reachable' = st.reachable
  /\ UNCHANGED <<pc, first, second, rmLabels, newNodes, ngraph, gradInfo, n,
                 computed, scores, degrees, output, deltas, calcGrad, nodeGrads,
                 arcGrads, addGradLog>>

\* ---------------------------------------------------------------- compose

canReachAlways(reach, idx) == TRUE

\* lines 317, 344, 367: the destination can get to an accept state
canReach(reach, idx) == reach[idx]

pairedArcFirstWeight(f, s, i, j) ==
  [dn1 |-> Arc(f, i).down, dn2 |-> Arc(s, j).down, ilabel |-> Arc(f, i).ilabel,
   olabel |-> Arc(s, j).olabel, weight |-> Arc(f, i).weight, info |-> <<i, j>>]

\* lines 313-332: the arc made from arc i of first and arc j of second
pairedArc(f, s, i, j) ==
  [dn1 |-> Arc(f, i).down, dn2 |-> Arc(s, j).down, ilabel |-> Arc(f, i).ilabel,
   olabel |-> Arc(s, j).olabel, weight |-> Arc(f, i).weight + Arc(s, j).weight,
   info |-> <<i, j>>]

\* lines 341-356: the arc made from arc i of first alone
firstEpsilonArc(f, curr, i) ==
  [dn1 |-> Arc(f, i).down, dn2 |-> curr[2], ilabel |-> Arc(f, i).ilabel,
   olabel |-> epsilon, weight |-> Arc(f, i).weight, info |-> <<i, -1>>]

\* lines 364-379: the arc made from arc j of second alone
secondEpsilonArc(s, curr, j) ==
  [dn1 |-> curr[1], dn2 |-> Arc(s, j).down, ilabel |-> epsilon,
   olabel |-> Arc(s, j).olabel, weight |-> Arc(s, j).weight, info |-> <<-1, j>>]

\* the arcs the three for loops of lines 308-380 try, in order
candidates(f, s, curr) ==
  Strict1(LAMBDA ps : [k \in 1..Len(ps) |-> pairedArc(f, s, ps[k][1], ps[k][2])],
          SelectSeq(PairSeq(Out(f, curr[1]), Out(s, curr[2])),
                    LAMBDA p : Arc(f, p[1]).olabel = Arc(s, p[2]).ilabel))
  \o Strict1(LAMBDA is : [k \in 1..Len(is) |-> firstEpsilonArc(f, curr, is[k])],
             SelectSeq(Out(f, curr[1]), LAMBDA i : Arc(f, i).olabel = epsilon))
  \o Strict1(LAMBDA js : [k \in 1..Len(js) |-> secondEpsilonArc(s, curr, js[k])],
             SelectSeq(Out(s, curr[2]), LAMBDA j : Arc(s, j).ilabel = epsilon))

\* what each loop body does with its arc: skip an unreachable destination,
\* build the node if it is new, add the arc and its provenance
emit(f, s, reach, currNode, c, st) ==
  LET idx == toIndex(c.dn1, c.dn2, f)
      fresh == st.newNodes[idx] < 0
      g1 == IF fresh
              THEN addNode(st.ngraph,
                           c.dn1 \in f.start /\ c.dn2 \in s.start,
                           c.dn1 \in f.accept /\ c.dn2 \in s.accept)
              ELSE st.ngraph
      nn == IF fresh THEN [st.newNodes EXCEPT ![idx] = st.ngraph.numNodes]
            ELSE st.newNodes
  IN IF ~canReach(reach, idx) THEN st
     ELSE [newNodes |-> nn,
           ngraph |-> addArc(g1, currNode, nn[idx], c.ilabel, c.olabel, c.weight),
           toExplore |-> IF fresh THEN Append(st.toExplore, <<c.dn1, c.dn2>>)
                         ELSE st.toExplore,
           gradInfo |-> Append(st.gradInfo, c.info)]

RECURSIVE emitAll(_, _, _, _, _, _)
emitAll(f, s, reach, currNode, cs, st) ==
  IF cs = <<>> THEN st
  ELSE Strict(LAMBDA t, x : emitAll(f, s, reach, currNode, t, x),
              Tail(cs), emit(f, s, reach, currNode, Head(cs), st))

\* lines 294-299: one pair of start nodes
addStart(f, s, reach, ss, st) ==
  LET idx == toIndex(ss[1], ss[2], f)
  IN IF ~reach[idx] THEN st
     ELSE [newNodes |-> [st.newNodes EXCEPT ![idx] = st.ngraph.numNodes],
           ngraph |-> addNode(st.ngraph, TRUE, ss[1] \in f.accept /\ ss[2] \in s.accept),
           toExplore |-> Append(st.toExplore, ss)]

\* lines 292-301: the start states that are reachable, in order
RECURSIVE addStarts(_, _, _, _, _)
addStarts(f, s, reach, ss, st) ==
  IF ss = <<>> THEN st
  ELSE Strict(LAMBDA t, x : addStarts(f, s, reach, t, x),
              Tail(ss), addStart(f, s, reach, Head(ss), st))

\* findReachable returns (line 280) and compose sets up, lines 289-302
ComposeInit ==
  /\ pc = "reach_loop"
  /\ toExplore = <<>>
  /\ pc' = "compose_loop"
  /\ LET st == addStarts(first, second, reachable,
                         PairSeq(startList(first), startList(second)),
                         [newNodes |-> [idx \in DOMAIN reachable |-> -1],
                          ngraph |-> EmptyGraph, toExplore |-> <<>>])
     IN /\ newNodes' = st.newNodes
        /\ ngraph' = st.ngraph
        /\ toExplore' = st.toExplore
  /\ gradInfo' = <<>>
  /\ UNCHANGED <<first, second, rmLabels, reachable, n, computed, scores, degrees,
                 output, deltas, calcGrad, nodeGrads, arcGrads, addGradLog>>

\* one iteration of the while loop, lines 303-381
ComposeStep ==
  /\ pc = "compose_loop"
  /\ toExplore # <<>>
  /\ \E curr \in {Head(toExplore)} :
       \E st \in {Strict(LAMBDA cs, st0 :
                            emitAll(first, second, reachable,
                                    newNodes[toIndex(curr[1], curr[2], first)], cs, st0),
                          candidates(first, second, curr),
                          [newNodes |-> newNodes, ngraph |-> ngraph,
                           toExplore |-> Tail(toExplore), gradInfo |-> gradInfo])} :
          /\ newNodes' = st.newNodes
          /\ ngraph' = st.ngraph
          /\ toExplore' = st.toExplore
          /\ gradInfo' = st.gradInfo
  /\ UNCHANGED <<pc, first, second, rmLabels, reachable, n, computed, scores,
                 degrees, output, deltas, calcGrad, nodeGrads, arcGrads,
                 addGradLog>>

\* line 412
ComposeReturn ==
  /\ pc = "compose_loop"
  /\ toExplore = <<>>
  /\ pc' = "composed"
  /\ UNCHANGED <<first, second, rmLabels, toExplore, reachable, newNodes, ngraph,
                 gradInfo, n, computed, scores, degrees, output, deltas,
                 calcGrad, nodeGrads, arcGrads, addGradLog>>

\* lines 400-407: deltas.weight(k) added to the arcs gradInfo[k] names
gradOne(info, dl, cg, k, st) ==
  [grad1 |-> IF cg[1] /\ info[k][1] >= 0
               THEN [st.grad1 EXCEPT ![info[k][1] + 1] = @ + dl[k]] ELSE st.grad1,
   grad2 |-> IF cg[2] /\ info[k][2] >= 0
               THEN [st.grad2 EXCEPT ![info[k][2] + 1] = @ + dl[k]] ELSE st.grad2]

\* lines 399-408
RECURSIVE gradLoop(_, _, _, _, _)
gradLoop(info, dl, cg, k, st) ==
  IF k > Len(info) THEN st
  ELSE Strict(LAMBDA j, x : gradLoop(info, dl, cg, j, x), k + 1, gradOne(info, dl, cg, k, st))

\* the closure of lines 388-411, called by backward with a deltas graph that
\* has one arc per arc of the composed graph and with the calcGrad bits the
\* caller left on the two inputs.  An addGrad call that raises ends it.
ComposeGradFunc ==
  /\ pc = "composed"
  /\ \E cg \in BOOLEAN \X BOOLEAN :
       LET dl == [k \in 1..Len(gradInfo) |-> 1]
           st == gradLoop(gradInfo, dl, cg, 1,
                          [grad1 |-> IF cg[1] THEN [k \in 1..numArcs(first) |-> 0]
                                     ELSE <<>>,
                           grad2 |-> IF cg[2] THEN [k \in 1..numArcs(second) |-> 0]
                                     ELSE <<>>])
           log1 == addGrad(<<>>, 0, st.grad1, first)
           log2 == addGrad(log1, 1, st.grad2, second)
       IN /\ calcGrad' = cg
          /\ deltas' = dl
          /\ IF ~(cg[1] \/ cg[2])
               THEN pc' = "graded" /\ addGradLog' = <<>>
               ELSE IF log1[1].error # "none"
                 THEN pc' = "ShapeMismatch" /\ addGradLog' = log1
                 ELSE IF log2[2].error # "none"
                   THEN pc' = "ShapeMismatch" /\ addGradLog' = log2
                   ELSE pc' = "graded" /\ addGradLog' = log2
  /\ UNCHANGED <<first, second, rmLabels, toExplore, reachable, newNodes, ngraph,
                 gradInfo, n, computed, scores, degrees, output, nodeGrads,
                 arcGrads>>

\* ------------------------------------------------------------- fractions

\* <<p, q>> is p/q, in lowest terms; <<1, 0>> is +infinity and <<0, 0>> is NaN
RECURSIVE Gcd(_, _)
Gcd(a, b) == IF b = 0 THEN a ELSE Strict(LAMBDA x, y : Gcd(x, y), b, a % b)

Norm(p, q) ==
  Strict(LAMBDA a, b : IF b = 0 THEN (IF a = 0 THEN <<0, 0>> ELSE <<1, 0>>)
                       ELSE IF a = 0 THEN <<0, 1>>
                       ELSE Strict1(LAMBDA d : <<a \div d, b \div d>>, Gcd(a, b)),
         p, q)

Frac(p) == <<p, 1>>

FMul(x, y) == Strict(LAMBDA a, b : Norm(a[1] * b[1], a[2] * b[2]), x, y)

FDiv(x, y) == Strict(LAMBDA a, b : Norm(a[1] * b[2], a[2] * b[1]), x, y)

FAdd(x, y) ==
  Strict(LAMBDA a, b :
           IF a[2] = 0 /\ b[2] = 0
             THEN (IF a = <<1, 0>> /\ b = <<1, 0>> THEN <<1, 0>> ELSE <<0, 0>>)
             ELSE Norm(a[1] * b[2] + b[1] * a[2], a[2] * b[2]),
         x, y)

\* ---------------------------------------------------------------- forward

\* log(exp(a) + exp(b)) on the exponentials
logadd(a, b) ==
  IF a = neginf THEN b
  ELSE IF b = neginf THEN a
  ELSE a + b

\* lines 486-490: one out-arc of the popped node
forwardArc(g, score, a, st) ==
  LET dn == Arc(g, a).down
      dg == [st.degrees EXCEPT ![dn] = @ - 1]
  IN [scores |-> [st.scores EXCEPT ![dn] = logadd(score * Arc(g, a).weight, @)],
      degrees |-> dg,
      computed |-> IF dg[dn] = 0 THEN Append(st.computed, dn) ELSE st.computed]

\* the for loop over graph.out(n), arcs taken in order
RECURSIVE forwardArcs(_, _, _, _)
forwardArcs(g, score, as, st) ==
  IF as = <<>> THEN st
  ELSE Strict(LAMBDA t, x : forwardArcs(g, score, t, x),
              Tail(as), forwardArc(g, score, Head(as), st))

\* the loop over graph.accept(): "throw" at the first accept node that still
\* has a positive degree, the accumulated score otherwise
RECURSIVE accumulate(_, _, _, _)
accumulate(as, dg, sc, score) ==
  IF as = <<>> THEN [thrown |-> FALSE, score |-> score]
  ELSE IF dg[Head(as)] > 0 THEN [thrown |-> TRUE, score |-> score]
  ELSE Strict(LAMBDA t, x : accumulate(t, dg, sc, x),
              Tail(as), logadd(score, sc[Head(as)]))

startsNoIn(g) == SelectSeq(startList(g), LAMBDA s : numIn(g, s) = 0)

\* lines 466-479.  degrees is written through operator[] after reserve()
\* only: the vector's size stays 0, which is undefined behaviour.  The
\* storage is there, so an unchecked build reads back what it wrote; a
\* build with checked operator[] stops at the first write.
ForwardInit ==
  /\ pc = "forward"
  /\ \/ /\ pc' = "forward_loop"
        /\ scores' = [v \in NodesOf(first) |-> IF v \in first.start THEN 1 ELSE neginf]
        /\ degrees' = [v \in NodesOf(first) |-> numIn(first, v)]
        /\ computed' = startsNoIn(first)
     \/ /\ first.numNodes > 0
        /\ pc' = "aborted"
        /\ UNCHANGED <<scores, degrees, computed>>
  /\ UNCHANGED <<first, second, rmLabels, toExplore, reachable, newNodes, ngraph,
                 gradInfo, n, output, deltas, calcGrad, nodeGrads, arcGrads,
                 addGradLog>>

\* one iteration of the while loop, lines 481-492
ForwardStep ==
  /\ pc = "forward_loop"
  /\ computed # <<>>
  /\ LET node == Head(computed)
         st == forwardArcs(first, scores[node], Out(first, node),
                           [scores |-> scores, degrees |-> degrees,
                            computed |-> Tail(computed)])
     IN /\ scores' = st.scores
        /\ degrees' = st.degrees
        /\ computed' = st.computed
  /\ UNCHANGED <<pc, first, second, rmLabels, toExplore, reachable, newNodes,
                 ngraph, gradInfo, n, output, deltas, calcGrad, nodeGrads,
                 arcGrads, addGradLog>>

\* lines 494-513: the queue has drained
ForwardFinish ==
  /\ pc = "forward_loop"
  /\ computed = <<>>
  /\ LET r == accumulate(acceptList(first), degrees, scores, neginf)
     IN IF r.thrown
          THEN pc' = "CycleDetected" /\ UNCHANGED <<output, ngraph>>
          ELSE /\ pc' = "returned"
               /\ output' = r.score
               /\ ngraph' = addArc(addNode(addNode(EmptyGraph, TRUE, FALSE),
                                           FALSE, TRUE), 0, 1, 0, 0, r.score)
  /\ UNCHANGED <<first, second, rmLabels, toExplore, reachable, newNodes,
                 gradInfo, n, computed, scores, degrees, deltas, calcGrad,
                 nodeGrads, arcGrads, addGradLog>>

\* ------------------------------------------------------------ forwardGrad

Seeds == {1, 2}

\* nodeGrads[n] = deltas.item() * exp(scores[n] - output), for n in accept
acceptGrads(g, d, sc, out) ==
  [v \in NodesOf(g) |->
     IF v \in g.accept THEN FMul(Frac(d), FDiv(Frac(sc[v]), Frac(out)))
     ELSE Frac(0)]

acceptsNoOut(g) == SelectSeq(acceptList(g), LAMBDA v : numOut(g, v) = 0)

\* lines 453-459: one in-arc of the popped node
forwardGradArc(g, sc, score, gradn, a, st) ==
  LET un == Arc(g, a).up
      arcGrad == FMul(gradn, FDiv(FMul(Frac(Arc(g, a).weight), Frac(sc[un])),
                                  Frac(score)))
      dg == [st.degrees EXCEPT ![un] = @ - 1]
  IN [arcGrads |-> [st.arcGrads EXCEPT ![a] = arcGrad],
      nodeGrads |-> [st.nodeGrads EXCEPT ![un] = FAdd(@, arcGrad)],
      degrees |-> dg,
      computed |-> IF dg[un] = 0 THEN Append(st.computed, un) ELSE st.computed]

\* the for loop over input.in(n), arcs taken in order
RECURSIVE forwardGradArcs(_, _, _, _, _, _)
forwardGradArcs(g, sc, score, gradn, as, st) ==
  IF as = <<>> THEN st
  ELSE Strict(LAMBDA t, x : forwardGradArcs(g, sc, score, gradn, t, x),
              Tail(as), forwardGradArc(g, sc, score, gradn, Head(as), st))

\* backward reaches the closure of line 504 with a seed and with the
\* calcGrad bit the caller left on the input; lines 432-445.  degrees is
\* written past its size as in forward.
ForwardGradInit ==
  /\ pc = "returned"
  /\ \E d \in Seeds, cg \in BOOLEAN :
       /\ deltas' = d
       /\ calcGrad' = <<cg>>
       /\ \/ /\ pc' = "grad_loop"
             /\ degrees' = [v \in NodesOf(first) |-> numOut(first, v)]
             /\ nodeGrads' = acceptGrads(first, d, scores, output)
             /\ arcGrads' = [a \in ArcsOf(first) |-> Frac(0)]
             /\ computed' = acceptsNoOut(first)
          \/ /\ first.numNodes > 0
             /\ pc' = "aborted"
             /\ UNCHANGED <<degrees, nodeGrads, arcGrads, computed>>
  /\ UNCHANGED <<first, second, rmLabels, toExplore, reachable, newNodes, ngraph,
                 gradInfo, n, scores, output, addGradLog>>

\* one iteration of the while loop, lines 447-461
ForwardGradStep ==
  /\ pc = "grad_loop"
  /\ computed # <<>>
  /\ LET node == Head(computed)
         st == forwardGradArcs(first, scores, scores[node], nodeGrads[node],
                               In(first, node),
                               [arcGrads |-> arcGrads, nodeGrads |-> nodeGrads,
                                degrees |-> degrees, computed |-> Tail(computed)])
     IN /\ arcGrads' = st.arcGrads
        /\ nodeGrads' = st.nodeGrads
        /\ degrees' = st.degrees
        /\ computed' = st.computed
  /\ UNCHANGED <<pc, first, second, rmLabels, toExplore, reachable, newNodes,
                 ngraph, gradInfo, n, scores, output, deltas, calcGrad,
                 addGradLog>>

\* line 462: the gradient is installed whatever calcGrad says
ForwardGradDone ==
  /\ pc = "grad_loop"
  /\ computed = <<>>
  /\ pc' = "graded"
  /\ addGradLog' = addGrad(addGradLog, 0,
                           [i \in 1..numArcs(first) |-> arcGrads[i - 1]], first)
  /\ UNCHANGED <<first, second, rmLabels, toExplore, reachable, newNodes, ngraph,
                 gradInfo, n, computed, scores, degrees, output, deltas,
                 calcGrad, nodeGrads, arcGrads>>

ExpWeights == {1, 2}

\* forward alone
ForwardInputs == GraphsOf(MaxNodesF, MaxArcsF, {0}, {0}, ExpWeights)

\* forward followed by its backward: one node more, so that a graph can
\* hold a start node, an accept node and a third node beside them
ForwardGradInputs == GraphsOf(MaxNodesF + 1, MaxArcsF, {0}, {0}, ExpWeights)

InitForward ==
  /\ pc = "forward"
  /\ first \in ForwardInputs
  /\ second = EmptyGraph
  /\ rmLabels = <<0, 0>>
  /\ Idle

NextForward ==
  \/ ForwardInit
  \/ ForwardStep
  \/ ForwardFinish

SpecForward == InitForward /\ [][NextForward]_vars

InitForwardGrad ==
  /\ pc = "forward"
  /\ first \in ForwardGradInputs
  /\ second = EmptyGraph
  /\ rmLabels = <<0, 0>>
  /\ Idle

NextForwardGrad ==
  \/ ForwardInit
  \/ ForwardStep
  \/ ForwardFinish
  \/ ForwardGradInit
  \/ ForwardGradStep
  \/ ForwardGradDone

SpecForwardGrad == InitForwardGrad /\ [][NextForwardGrad]_vars

\* ---------------------------------------------- remove: specification

RemoveLabels == {epsilon, 1}

InitRemove ==
  /\ pc = "remove"
  /\ first \in GraphsOf(MaxNodesR, MaxArcsR, RemoveLabels, RemoveLabels, {1})
  /\ second = EmptyGraph
  /\ rmLabels \in RemoveLabels \X RemoveLabels
  /\ Idle

NextRemove ==
  \/ RemoveInit
  \/ RemoveSeed
  \/ RemoveStep
  \/ RemoveNext
  \/ RemoveReturn

SpecRemove == InitRemove /\ [][NextRemove]_vars

\* the arcs a step appended to the graph being built
NewArcs == {k \in 1..Len(ngraph'.arcs) : k > Len(ngraph.arcs)}

\* the arcs of other that leave node v and do not match the removed labels
Unmatched(v) == {a \in Range(Out(first, v)) : ~labelMatch(first, rmLabels, a)}

\* C7: every arc an iteration of the walk from n adds goes from map[n] to
\* map[w], w the destination of an arc that leaves the popped node and does
\* not match; both ends are nodes of the result; the arc has the labels of
\* that arc and weight 0
C7_ArcsFromMappedNode ==
  [][(pc = "remove_walk" /\ toExplore # <<>>) =>
       \A k \in NewArcs :
          /\ ngraph'.arcs[k].up = newNodes[n]
          /\ ngraph'.arcs[k].up \in NodesOf(ngraph')
          /\ ngraph'.arcs[k].down \in NodesOf(ngraph')
          /\ ngraph'.arcs[k].weight = 0
          /\ \E a \in Unmatched(Head(toExplore)) :
               /\ ngraph'.arcs[k].down = newNodes[Arc(first, a).down]
               /\ ngraph'.arcs[k].ilabel = Arc(first, a).ilabel
               /\ ngraph'.arcs[k].olabel = Arc(first, a).olabel]_vars

\* --------------------------------------------- compose: specification

\* start and accept sets of the inputs of compose: one start and one accept
\* node, a node that is both, several accept nodes, several start nodes, no
\* start node, no accept node
ComposeFlags ==
  {<<{0}, {MaxNodes - 1}>>, <<{0}, {0}>>, <<{0}, 0..(MaxNodes - 1)>>,
   <<0..(MaxNodes - 1), {MaxNodes - 1}>>, <<{}, {MaxNodes - 1}>>, <<{0}, {}>>}

ComposeGraphs(ilabels, olabels, weights) ==
  {g \in GraphsOf(MaxNodes, MaxArcs, ilabels, olabels, weights) :
     <<g.start, g.accept>> \in ComposeFlags}

\* the first input reads label 2 and writes epsilon or 1, the second reads
\* epsilon or 1 and writes label 3
InitCompose ==
  /\ pc = "compose"
  /\ first \in ComposeGraphs({2}, {epsilon, 1}, {1})
  /\ second \in ComposeGraphs({epsilon, 1}, {3}, {2})
  /\ rmLabels = <<0, 0>>
  /\ Idle

NextCompose ==
  \/ FindReachableInit
  \/ FindReachableStep
  \/ ComposeInit
  \/ ComposeStep
  \/ ComposeReturn

SpecCompose == InitCompose /\ [][NextCompose]_vars

\* compose followed by the backward closure of its result
NextComposeGrad ==
  \/ FindReachableInit
  \/ FindReachableStep
  \/ ComposeInit
  \/ ComposeStep
  \/ ComposeReturn
  \/ ComposeGradFunc

SpecComposeGrad == InitCompose /\ [][NextComposeGrad]_vars

\* ------------------------------------------------- properties of compose

\* the paths of exactly k arcs that leave a start node of g
RECURSIVE PathsLevel(_, _)
PathsLevel(g, k) ==
  IF k = 0 THEN {[from |-> v, arcs |-> <<>>, to |-> v] : v \in g.start}
  ELSE {[from |-> q[1].from, arcs |-> Append(q[1].arcs, q[2]),
         to |-> Arc(g, q[2]).down] :
          q \in {r \in PathsLevel(g, k - 1) \X ArcsOf(g) : Arc(g, r[2]).up = r[1].to}}

\* the start-to-accept paths of g of at most k arcs
AcceptPaths(g, k) ==
  {p \in UNION {PathsLevel(g, m) : m \in 0..k} : p.to \in g.accept}

NoEps(labels) == SelectSeq(labels, LAMBDA l : l # epsilon)

ilabels(g, as) == [k \in 1..Len(as) |-> Arc(g, as[k]).ilabel]

olabels(g, as) == [k \in 1..Len(as) |-> Arc(g, as[k]).olabel]

pathWeight(g, as) == SumSeq([k \in 1..Len(as) |-> Arc(g, as[k]).weight])

\* the arcs of the first (c = 1) or second (c = 2) input named by the
\* provenance of the composed arcs as, in order
Projection(as, c) ==
  SelectSeq([k \in 1..Len(as) |-> gradInfo[as[k] + 1][c]], LAMBDA i : i >= 0)

\* as is a start-to-accept path of g (the empty path: of a node that is both)
IsAcceptPath(g, as) ==
  IF as = <<>> THEN g.start \cap g.accept # {}
  ELSE /\ Arc(g, as[1]).up \in g.start
       /\ Arc(g, as[Len(as)]).down \in g.accept
       /\ \A k \in 1..(Len(as) - 1) : Arc(g, as[k]).down = Arc(g, as[k + 1]).up

\* the longest path of the composed graph looked at
MaxComposedPath == MaxPath + MaxPath

ComposedPaths == AcceptPaths(ngraph, MaxComposedPath)

\* C1: every pair of a start-to-accept path of first and one of second whose
\* output and input labels agree, epsilons deleted, has a start-to-accept path
\* in the composition with the input labels of the one, the output labels of
\* the other and the sum of their weights
C1_Complete ==
  pc = "composed" =>
    \A pa \in AcceptPaths(first, MaxPath), pb \in AcceptPaths(second, MaxPath) :
       NoEps(olabels(first, pa.arcs)) = NoEps(ilabels(second, pb.arcs))
         => \E p \in ComposedPaths :
              /\ NoEps(ilabels(ngraph, p.arcs)) = NoEps(ilabels(first, pa.arcs))
              /\ NoEps(olabels(ngraph, p.arcs)) = NoEps(olabels(second, pb.arcs))
              /\ pathWeight(ngraph, p.arcs)
                   = pathWeight(first, pa.arcs) + pathWeight(second, pb.arcs)

\* C2: the provenance of every start-to-accept path of the composition
\* projects to a start-to-accept path of first and one of second whose output
\* and input labels agree, epsilons deleted; every composed arc carries the
\* input label of its first arc (epsilon without one) and the output label of
\* its second arc (epsilon without one); the weight of the path is the sum of
\* the weights of the projected arcs
C2_Sound ==
  pc = "composed" =>
    /\ Len(gradInfo) = numArcs(ngraph)
    /\ \A p \in ComposedPaths :
         LET pa == Projection(p.arcs, 1)
             pb == Projection(p.arcs, 2)
         IN /\ IsAcceptPath(first, pa)
            /\ IsAcceptPath(second, pb)
            /\ NoEps(olabels(first, pa)) = NoEps(ilabels(second, pb))
            /\ \A k \in 1..Len(p.arcs) :
                 LET info == gradInfo[p.arcs[k] + 1]
                 IN /\ Arc(ngraph, p.arcs[k]).ilabel
                        = IF info[1] >= 0 THEN Arc(first, info[1]).ilabel ELSE epsilon
                    /\ Arc(ngraph, p.arcs[k]).olabel
                        = IF info[2] >= 0 THEN Arc(second, info[2]).olabel ELSE epsilon
            /\ pathWeight(ngraph, p.arcs)
                 = pathWeight(first, pa) + pathWeight(second, pb)

\* the composition holds a start-to-accept path with a paired arc, an arc
\* made from first alone and an arc made from second alone
C2_Witness ==
  /\ pc = "composed"
  /\ \E p \in ComposedPaths :
       /\ \E k \in 1..Len(p.arcs) : gradInfo[p.arcs[k] + 1][1] = -1
       /\ \E k \in 1..Len(p.arcs) : gradInfo[p.arcs[k] + 1][2] = -1
       /\ \E k \in 1..Len(p.arcs) :
            /\ gradInfo[p.arcs[k] + 1][1] >= 0
            /\ gradInfo[p.arcs[k] + 1][2] >= 0
            /\ Arc(ngraph, p.arcs[k]).ilabel # epsilon

\* C3: no two distinct start-to-accept paths of the composition project to
\* the same path of first and the same path of second
C3_NoDoubleCounting ==
  pc = "composed" =>
    \A p, q \in ComposedPaths :
       (/\ p.from = q.from
        /\ Projection(p.arcs, 1) = Projection(q.arcs, 1)
        /\ Projection(p.arcs, 2) = Projection(q.arcs, 2)) => p = q

\* the product state a node of the composition stands for
StatesOf(v) ==
  {st \in NodesOf(first) \X NodesOf(second) : newNodes[toIndex(st[1], st[2], first)] = v}

\* C10: the composition is trim, a product state is one node at most, the
\* flags of a node are the conjunctions of the flags of its product state,
\* and an input without start nodes or without accept nodes gives the empty
\* graph
C10_Trim ==
  pc = "composed" =>
    /\ \A v \in NodesOf(ngraph) :
         /\ v \in ngraph.start \/ \E u \in ngraph.start : <<u, v>> \in Reach(ngraph)
         /\ v \in ngraph.accept \/ \E w \in ngraph.accept : <<v, w>> \in Reach(ngraph)
         /\ Cardinality(StatesOf(v)) = 1
         /\ \A st \in StatesOf(v) :
              /\ v \in ngraph.start <=> (st[1] \in first.start /\ st[2] \in second.start)
              /\ v \in ngraph.accept <=> (st[1] \in first.accept /\ st[2] \in second.accept)
    /\ \A idx \in DOMAIN newNodes : newNodes[idx] \in -1..(ngraph.numNodes - 1)
    /\ \A a \in ArcsOf(ngraph) :
         Arc(ngraph, a).up \in NodesOf(ngraph) /\ Arc(ngraph, a).down \in NodesOf(ngraph)
    /\ (first.start = {} \/ first.accept = {} \/ second.start = {} \/ second.accept = {})
         => ngraph = EmptyGraph

\* the composition has three nodes or more and left out a product state that
\* can get to an accept state but cannot be got to from a start state
C10_Witness ==
  /\ pc = "composed"
  /\ ngraph.numNodes >= 3
  /\ \E idx \in DOMAIN newNodes : reachable[idx] /\ newNodes[idx] < 0

\* C8: no addGrad call is made on an input whose calcGrad is false, and the
\* closure ends without an error
C8_NoGradWithoutCalcGrad ==
  /\ \A k \in 1..Len(addGradLog) : calcGrad[addGradLog[k].input + 1]
  /\ pc # "ShapeMismatch"

\* ------------------------------------------------- properties of forward

\* exp-domain total of the paths from node v to an accept node (the empty
\* path counts when v is an accept node); g is acyclic
RECURSIVE ToAccept(_, _)
ToAccept(g, v) ==
  (IF v \in g.accept THEN 1 ELSE 0)
  + SumSeq([i \in 1..numOut(g, v) |->
              Arc(g, Out(g, v)[i]).weight * ToAccept(g, Arc(g, Out(g, v)[i]).down)])

\* exp-domain total of the paths from a start node to node v
RECURSIVE FromStart(_, _)
FromStart(g, v) ==
  (IF v \in g.start THEN 1 ELSE 0)
  + SumSeq([i \in 1..numIn(g, v) |->
              Arc(g, In(g, v)[i]).weight * FromStart(g, Arc(g, In(g, v)[i]).up)])

\* the sum over all start-to-accept paths of the product of exp(weight)
PathScore(g) == SumSeq([i \in 1..Len(startList(g)) |-> ToAccept(g, startList(g)[i])])

\* exp-domain total of the start-to-accept paths through arc a
Through(g, a) == FromStart(g, Arc(g, a).up) * Arc(g, a).weight * ToAccept(g, Arc(g, a).down)

ItemGraph(w) ==
  [numNodes |-> 2, start |-> {0}, accept |-> {1},
   arcs |-> <<[up |-> 0, down |-> 1, ilabel |-> 0, olabel |-> 0, weight |-> w]>>]

\* C4: forward on a graph with a directed cycle never returns a result
C4_CycleNeverReturns == HasCycle(first) => pc # "returned"

\* C5: on every acyclic graph forward returns the item graph whose weight
\* is the log-sum-exp over all start-to-accept paths (it does not raise
\* CycleDetected), non-start nodes without incoming arcs included
C5_AcyclicAlwaysReturns ==
  (pc \in {"returned", "CycleDetected"} /\ ~HasCycle(first))
    => (pc = "returned" /\ output = PathScore(first) /\ ngraph = ItemGraph(output))

\* C6: the gradient installed by forward's backward is, for every arc a,
\* d * (exp-score of the start-to-accept paths through a) / exp(output)
C6_GradientExact ==
  (pc = "graded" /\ ~HasCycle(first) /\ output # neginf)
    => \A a \in ArcsOf(first) :
         addGradLog[1].grad[a + 1]
           = FDiv(FMul(Frac(deltas), Frac(Through(first, a))), Frac(output))

\* --------------------------------------------------------- termination

\* the inputs: graphs with cycles and self-loops among them; remove takes
\* epsilon out; the inputs of compose have one start and one accept node, or
\* all their nodes are both
TerminationFlags ==
  {<<{0}, {MaxNodesT - 1}>>, <<0..(MaxNodesT - 1), 0..(MaxNodesT - 1)>>}

InitAll ==
  /\ \/ /\ pc = "remove"
        /\ first \in GraphsOf(MaxNodesT, MaxArcsT, RemoveLabels, RemoveLabels, {1})
        /\ second = EmptyGraph
     \/ /\ pc = "compose"
        /\ first \in {g \in GraphsOf(MaxNodesT, MaxArcsT, {2}, {epsilon, 1}, {1}) :
                        <<g.start, g.accept>> \in TerminationFlags}
        /\ second \in {g \in GraphsOf(MaxNodesT, MaxArcsT, {epsilon, 1}, {3}, {2}) :
                         <<g.start, g.accept>> \in TerminationFlags}
     \/ /\ pc = "forward"
        /\ first \in GraphsOf(MaxNodesT, MaxArcsT, {0}, {0}, ExpWeights)
        /\ second = EmptyGraph
  /\ rmLabels = <<epsilon, epsilon>>
  /\ Idle

NextAll ==
  \/ RemoveInit
  \/ RemoveSeed
  \/ RemoveStep
  \/ RemoveNext
  \/ RemoveReturn
  \/ FindReachableInit
  \/ FindReachableStep
  \/ ComposeInit
  \/ ComposeStep
  \/ ComposeReturn
  \/ ForwardInit
  \/ ForwardStep
  \/ ForwardFinish
  \/ ForwardGradInit
  \/ ForwardGradStep
  \/ ForwardGradDone

\* the code is sequential: an operation that can take a step takes it
FairSpec == InitAll /\ [][NextAll]_vars /\ WF_vars(NextAll)

Finished == {"removed", "composed", "CycleDetected", "aborted", "graded"}

\* C9: remove, findReachable and compose, forward and forwardGrad come to
\* an end on every input
C9_Terminates == <>(pc \in Finished)

\* compose has ended on two inputs with cycles, with a result that has a cycle
C9_Witness == pc = "composed" /\ HasCycle(first) /\ HasCycle(second) /\ HasCycle(ngraph)

====
